---- MODULE Spec2Model ----
(***************************************************************************)
(* Command dispatch and parallel execution core of RedTeam-Console.        *)
(*                                                                         *)
(*   - security_validator.py   CommandValidator.validate_command           *)
(*   - terminal_manager.py     TerminalManager (the Terminal Task Tracker) *)
(*   - command_executor.py     execute_command and its dispatch paths      *)
(*   - command_executor_v2.py  ParallelExecutor and execute_command        *)
(*                                                                         *)
(* SpecTracker  : command_executor.py driving terminal_manager.py          *)
(* FairTracker  : SpecTracker with the fairness of the poll loop           *)
(* SpecExecutor : command_executor_v2.py                                   *)
(* SpecRouter   : execute_command and the validator as functions           *)
(* SpecLauncher : the launches of terminal_manager.py alone                *)
(***************************************************************************)
EXTENDS Integers, Sequences, FiniteSets, TLC

(***************************************************************************)
(* Bounds of the model.                                                    *)
(***************************************************************************)
\* tasks the Tracker launches in one process lifetime, when their scripts
\* and the polls are followed
MaxTasks == 2
\* tasks the Tracker launches in one process lifetime, when only the
\* launches are followed
MaxLaunched == 6
\* lines a user command writes into its sink
MaxUserLines == 1
\* the clock advances in steps of TickStep seconds, up to MaxTime
TickStep == 120
MaxTime == 240
\* ids named by one collect_results / wait_for_tasks call
MaxIdList == 2
\* commands of one batch of the ParallelExecutor
MaxBatch == 2

(***************************************************************************)
(* Program constants.                                                      *)
(***************************************************************************)
COMMAND_TIMEOUT_SECONDS == 120
\* TerminalManager.__init__: self.max_parallel_tasks = 5
max_parallel_tasks == 5

\* Python's None and a present value
None == <<>>
Some(x) == <<x>>

(***************************************************************************)
(* Command strings.  A simple command is a shell command line; the special *)
(* forms carry a prefix.                                                   *)
(***************************************************************************)
SimpleCommands == {"echo ok", "rm -rf /"}
\* the commands given to the Tracker
TrackerCommands == {"echo ok"}

\* a command string: its special-form prefix ("" when it has none) and the
\* segments of its payload (one segment for a simple command)
Simple(c) == [prefix |-> "", segs |-> <<c>>]
Parallel(segs) == [prefix |-> "parallel_execute:", segs |-> segs]

\* the command lines given to the validator and to the shell path; LongLine
\* stands for a line of 501 characters with nothing else to it
LongLine == "echo xx...x (501 characters)"
ShellLines ==
    { "echo ok", "rm -rf /", "cat /etc/passwd", "cat /etc/passwd /etc/shadow",
      "echo $(id)", "a|b|c|d|e|f|g", "cat /etc/passwd | tee $(id)",
      "rm -rf / /etc/passwd $(id)", "sudo id", "sudo -S nmap x", "nmap x",
      LongLine }

\* re.search(pattern, command, re.IGNORECASE) over DANGEROUS_COMMANDS:
\* r'\brm\s+.*-rf\s*/' matches the lines that hold "rm -rf /" and nothing in
\* the other lines or in a prefix
BlockedIn(line) == line \in {"rm -rf /", "rm -rf / /etc/passwd $(id)"}

MatchesBlockedPattern(command) ==
    \E i \in 1..Len(command.segs) : BlockedIn(command.segs[i])

\* self.warning_patterns, in the order of the list (those the lines can match)
WarningPatterns == <<"/etc/passwd", "/etc/shadow">>

\* re.search(pattern, line, re.IGNORECASE) for a warning pattern
WarningIn(pattern, line) ==
    \/ pattern = "/etc/passwd"
         /\ line \in {"cat /etc/passwd", "cat /etc/passwd /etc/shadow",
                      "cat /etc/passwd | tee $(id)", "rm -rf / /etc/passwd $(id)"}
    \/ pattern = "/etc/shadow" /\ line = "cat /etc/passwd /etc/shadow"

\* len(text), for a line and for a prefix
LengthOf(text) ==
    CASE text = "" -> 0
      [] text = "echo ok" -> 7
      [] text = "rm -rf /" -> 8
      [] text = "cat /etc/passwd" -> 15
      [] text = "cat /etc/passwd /etc/shadow" -> 27
      [] text = "echo $(id)" -> 10
      [] text = "a|b|c|d|e|f|g" -> 13
      [] text = "cat /etc/passwd | tee $(id)" -> 27
      [] text = "rm -rf / /etc/passwd $(id)" -> 26
      [] text = "sudo id" -> 7
      [] text = "sudo -S nmap x" -> 14
      [] text = "nmap x" -> 6
      [] text = LongLine -> 501
      [] text = "exit" -> 4
      [] text = "report_generation" -> 17
      [] text = "quick_scan" -> 10
      [] text = "deadbeef" -> 8
      [] text = "custom_function:" -> 16
      [] text = "install_tool:" -> 13
      [] text = "parallel_execute:" -> 17
      [] text = "collect_results:" -> 16

\* line.count('|')
PipesIn(line) ==
    CASE line = "a|b|c|d|e|f|g" -> 6
      [] line = "cat /etc/passwd | tee $(id)" -> 1
      [] OTHER -> 0

\* re.search(r'\$\(.*\)', line)
SubstitutionIn(line) ==
    line \in {"echo $(id)", "cat /etc/passwd | tee $(id)", "rm -rf / /etc/passwd $(id)"}

\* 'sudo' in line.lower()
SudoIn(line) == line \in {"sudo id", "sudo -S nmap x"}
\* re.search(r'sudo\s+-S', line)
SudoDashSIn(line) == line = "sudo -S nmap x"

\* len() and count('|') of the segments from the k-th on
RECURSIVE LengthFrom(_, _)
LengthFrom(segs, k) ==
    IF k > Len(segs) THEN 0 ELSE LengthOf(segs[k]) + LengthFrom(segs, k + 1)

RECURSIVE PipesFrom(_, _)
PipesFrom(segs, k) ==
    IF k > Len(segs) THEN 0 ELSE PipesIn(segs[k]) + PipesFrom(segs, k + 1)

\* the measures of the whole command string: a prefix, then the segments
\* with a ';' between two of them
CommandLength(command) ==
    LengthOf(command.prefix) + LengthFrom(command.segs, 1)
        + (IF Len(command.segs) > 1 THEN Len(command.segs) - 1 ELSE 0)
CommandPipes(command) == PipesFrom(command.segs, 1)
MatchesWarning(pattern, command) ==
    \E i \in 1..Len(command.segs) : WarningIn(pattern, command.segs[i])

\* len(command) > 500, line 71, and command.count('|') > 5, line 75
LongCommandLength == 500
ManyPipes == 5

\* validate_command, lines 64-84: risk_level and warnings after each test
RiskScan(command) ==
    LET found == SelectSeq(WarningPatterns, LAMBDA p : MatchesWarning(p, command))
        s1 == [risk |-> IF found = <<>> THEN "LOW" ELSE "HIGH", warnings |-> found]
        s2 == IF CommandLength(command) > LongCommandLength
              THEN [risk |-> "MEDIUM", warnings |-> Append(s1.warnings, "long")]
              ELSE s1
        s3 == IF CommandPipes(command) > ManyPipes
              THEN [risk |-> "MEDIUM", warnings |-> Append(s2.warnings, "pipes")]
              ELSE s2
        s4 == IF \E i \in 1..Len(command.segs) : SubstitutionIn(command.segs[i])
              THEN [risk |-> "MEDIUM", warnings |-> Append(s3.warnings, "substitution")]
              ELSE s3
        s5 == IF /\ \E i \in 1..Len(command.segs) : SudoIn(command.segs[i])
                 /\ ~\E i \in 1..Len(command.segs) : SudoDashSIn(command.segs[i])
              THEN [s4 EXCEPT !.warnings = Append(@, "sudo without -S")]
              ELSE s4
    IN s5

\* validate_command that looks for the blocked patterns after the scan and
\* adds its warning to those of the scan
validate_commandBlockLast(command) ==
    IF MatchesBlockedPattern(command)
    THEN <<FALSE, "CRITICAL", Append(RiskScan(command).warnings, "Blocked")>>
    ELSE <<TRUE, RiskScan(command).risk, RiskScan(command).warnings>>

\* validate_command returns the tuple (is_safe, risk_level, warnings)
validate_command(command) ==
    IF MatchesBlockedPattern(command)
    THEN <<FALSE, "CRITICAL", <<"Blocked">>>>
    ELSE <<TRUE, RiskScan(command).risk, RiskScan(command).warnings>>

\* Python truth value of a tuple: a tuple is false only when it is empty
TupleTruth(t) == Len(t) > 0

(***************************************************************************)
(* Output sinks.  A sink is the sequence of the lines of the task's output *)
(* file that matter to the Tracker; <<>> is "the file does not exist".     *)
(* A line is [lead, key, val, at]: lead is the text before "Exit Code:",    *)
(* key says whether the line holds "Exit Code:", val the text after it;    *)
(* at is the date of the "Completed: $(date)" line the script writes with  *)
(* its own "Exit Code:" line, and NoDate on every other line.              *)
(***************************************************************************)
NoDate == 0 - 1
HeaderLine == [lead |-> "Output:", key |-> FALSE, val |-> "", at |-> NoDate]
\* str(exit_code), as the script's echo prints it
CodeText(c) == IF c = 0 THEN "0" ELSE "1"
SentinelLine(c, date) == [lead |-> "", key |-> TRUE, val |-> CodeText(c), at |-> date]
ExitCodes == {0, 1}

\* what a user command may print into the sink
UserLines ==
    { [lead |-> "data", key |-> FALSE, val |-> "", at |-> NoDate],
      [lead |-> "", key |-> TRUE, val |-> "n/a", at |-> NoDate],
      [lead |-> "last ", key |-> TRUE, val |-> "1", at |-> NoDate],
      [lead |-> "", key |-> TRUE, val |-> "0", at |-> NoDate] }

\* "Exit Code:" in content
ContainsExitCode(content) == \E i \in 1..Len(content) : content[i].key
\* line.startswith("Exit Code:")
StartsWithExitCode(line) == line.key /\ line.lead = ""
\* int(line.split(":")[1].strip()) : the value, or a ValueError
IsIntText(v) == v \in {"0", "1"}
IntOf(v) == IF v = "0" THEN 0 ELSE 1

VARIABLES
    now,              \* time.time()
    nextId,           \* the next uuid the Tracker draws
    task,             \* the TerminalTask objects, by task_id
    active_tasks,     \* TerminalManager.active_tasks (its keys)
    completed_tasks,  \* TerminalManager.completed_tasks
    sink,             \* the output file of each task
    script,           \* where the terminal script of each task stands
    pc,               \* where the caller of the Tracker stands
    caller,           \* the dispatch path that is waiting
    task_ids,         \* the ids the waiting call was given
    remaining,        \* wait_for_tasks: remaining_tasks
    completed,        \* wait_for_tasks: completed
    ret,              \* what the last call returned
    x_pc,             \* where the caller of the ParallelExecutor stands
    x_caller,         \* "api": execute_parallel_commands, "dispatch": execute_command
    x_cmds,           \* execute_parallel_commands: commands
    x_i,              \* the index of the launch loop, then of the wait loop
    x_task_ids,       \* execute_parallel_commands: task_ids
    x_procs,          \* the child processes: processes, with their state
    x_active,         \* ParallelExecutor.active_tasks
    x_results,        \* execute_parallel_commands: results
    x_ret,            \* what the last call returned
    r_call,           \* the last direct call of a function: its arguments
    r_ret             \* the value that call returned

trackerVars ==
    <<now, nextId, task, active_tasks, completed_tasks, sink, script, pc, caller,
      task_ids, remaining, completed, ret>>

executorVars ==
    <<x_pc, x_caller, x_cmds, x_i, x_task_ids, x_procs, x_active, x_results, x_ret>>

routerVars == <<r_call, r_ret>>

vars == <<trackerVars, executorVars, routerVars>>

TaskIds == 1..MaxLaunched
\* an id no launch ever returns
BogusId == 0
Issued == 1..(nextId - 1)

\* the list of wait_for_tasks with the status of a task that still runs
TerminalStatusesAndRunning == {"completed", "failed", "timeout", "running"}

\* ["completed", "failed", "timeout"], line 247
TerminalStatuses == {"completed", "failed", "timeout"}

\* the record of a call: op names it, pre is what held when it began, batch
\* that its ids are those the call before it returned,
\* done says it returned; the rest is the value returned
NoRet ==
    [op |-> "none", pre |-> FALSE, batch |-> FALSE, done |-> FALSE, raised |-> FALSE,
     rc |-> 0, timed_out |-> FALSE, ids |-> <<>>, keys |-> {}, val |-> <<>>]

\* the record of a call of command_executor_v2: ran is the set of commands
\* a child process was started for, batch the BatchResult
NoXRet ==
    [op |-> "none", done |-> FALSE, raised |-> FALSE, rc |-> 0,
     timed_out |-> FALSE, ran |-> {}, batch |-> <<>>,
     command |-> <<>>, run_in_terminal |-> FALSE, outcome |-> "none",
     password |-> <<>>, logs |-> <<TRUE, TRUE>>]

\* no direct call yet
NoCall ==
    [fn |-> "none", command |-> <<>>, run_in_terminal |-> FALSE,
     outcome |-> "none", password |-> <<>>, platform |-> "none"]

Init ==
    /\ r_call = NoCall
    /\ r_ret = None
    /\ now = 0
    /\ nextId = 1
    /\ task = <<>>
    /\ active_tasks = {}
    /\ completed_tasks = <<>>
    /\ sink = [i \in TaskIds |-> <<>>]
    /\ script = [i \in TaskIds |-> "off"]
    /\ pc = "idle"
    /\ caller = "none"
    /\ task_ids = <<>>
    /\ remaining = {}
    /\ completed = <<>>
    /\ ret = NoRet
    /\ x_pc = "idle"
    /\ x_caller = "none"
    /\ x_cmds = <<>>
    /\ x_i = 1
    /\ x_task_ids = <<>>
    /\ x_procs = <<>>
    /\ x_active = {}
    /\ x_results = <<>>
    /\ x_ret = NoXRet


(***************************************************************************)
(* The environment: the clock and the terminal scripts.  Nothing moves in  *)
(* the instant between a return and the caller's next call.                *)
(***************************************************************************)
Tick ==
    /\ pc # "returned"
    /\ x_pc \notin {"returned", "raised"}
    /\ now + TickStep <= MaxTime
    /\ now' = now + TickStep
    /\ UNCHANGED <<executorVars, routerVars>>
    /\ UNCHANGED <<nextId, task, active_tasks, completed_tasks, sink, script, pc,
                   caller, task_ids, remaining, completed, ret>>

\* create_terminal_script, lines 66-70: the script creates the sink with its
\* header and starts the user command
ScriptStart(id) ==
    /\ UNCHANGED <<executorVars, routerVars>>
    /\ pc # "returned"
    /\ script[id] = "spawned"
    /\ script' = [script EXCEPT ![id] = "running"]
    /\ sink' = [sink EXCEPT ![id] = <<HeaderLine>>]
    /\ UNCHANGED <<now, nextId, task, active_tasks, completed_tasks, pc, caller,
                   task_ids, remaining, completed, ret>>

\* line 70: the user command appends a line of its own output
UserWrite(id, line) ==
    /\ UNCHANGED <<executorVars, routerVars>>
    /\ pc # "returned"
    /\ script[id] = "running"
    /\ Len(sink[id]) < 1 + MaxUserLines
    /\ sink' = [sink EXCEPT ![id] = Append(@, line)]
    /\ UNCHANGED <<now, nextId, task, active_tasks, completed_tasks, script, pc,
                   caller, task_ids, remaining, completed, ret>>

\* lines 71-80: the user command exits with code c and the script appends
\* the "Exit Code: c" line
ScriptFinish(id, c) ==
    /\ UNCHANGED <<executorVars, routerVars>>
    /\ pc # "returned"
    /\ script[id] = "running"
    /\ script' = [script EXCEPT ![id] = "done"]
    /\ sink' = [sink EXCEPT ![id] = Append(@, SentinelLine(c, now))]
    /\ UNCHANGED <<now, nextId, task, active_tasks, completed_tasks, pc, caller,
                   task_ids, remaining, completed, ret>>

(***************************************************************************)
(* TerminalManager.  Its registry is the record                            *)
(*   [task, active, completed, nextId]                                     *)
(* of the task objects, the keys of active_tasks, the list completed_tasks *)
(* and the next id.                                                        *)
(***************************************************************************)
Registry ==
    [task |-> task, active |-> active_tasks, completed |-> completed_tasks,
     nextId |-> nextId]

SetRegistry(reg) ==
    /\ task' = reg.task
    /\ active_tasks' = reg.active
    /\ completed_tasks' = reg.completed
    /\ nextId' = reg.nextId

NewTask(id, command) ==
    [task_id |-> id, command |-> command, start_time |-> now,
     process |-> FALSE, status |-> "pending", return_code |-> None,
     output |-> <<>>, error |-> ""]

\* a launch needs a fresh id, and (a bound of the model) enough clock left
\* for the task to reach its timeout
CanLaunch(n) ==
    /\ nextId + n - 1 <= MaxTasks
    /\ now + COMMAND_TIMEOUT_SECONDS + TickStep <= MaxTime

\* launch_terminal_task: ok says whether a terminal could be spawned; the id
\* returned is the reg.nextId of before the call
launch_terminal_task(reg, command, ok) ==
    IF ok
    THEN [reg EXCEPT
             !.task = Append(@, [NewTask(reg.nextId, command) EXCEPT
                                    !.process = TRUE, !.status = "running"]),
             !.active = @ \cup {reg.nextId},
             !.nextId = @ + 1]
    ELSE [reg EXCEPT
             !.task = Append(@, [NewTask(reg.nextId, command) EXCEPT
                                    !.status = "failed",
                                    !.error = "No suitable terminal emulator found"]),
             !.completed = Append(@, reg.nextId),
             !.nextId = @ + 1]

\* the scripts of the terminals spawned between the registries old and new
SpawnScripts(old, new) ==
    script' = [i \in TaskIds |->
                  IF i \in new.active \ old.active THEN "spawned" ELSE script[i]]

\* index of the first line that starts with "Exit Code:", 0 when there is none
FirstExitCodeLine(content) ==
    IF \E i \in 1..Len(content) : StartsWithExitCode(content[i])
    THEN CHOOSE i \in 1..Len(content) :
            /\ StartsWithExitCode(content[i])
            /\ \A j \in 1..(i - 1) : ~StartsWithExitCode(content[j])
    ELSE 0

TimedOut(t) == now - t.start_time > COMMAND_TIMEOUT_SECONDS

\* check_task_status, lines 217-235, on the task object t as the lines above
\* left it: the registry after the call, and the value returned
CheckTimeout(reg, id, t) ==
    IF TimedOut(t)
    THEN LET t2 == [t EXCEPT !.status = "timeout"]
         IN [reg |-> [reg EXCEPT !.task[id] = t2,
                                 !.active = @ \ {id},
                                 !.completed = Append(@, id)],
             val |-> Some(t2)]
    ELSE [reg |-> [reg EXCEPT !.task[id] = t], val |-> Some(t)]

\* check_task_status: the registry after the call, and the value returned
check_task_status(reg, id) ==
    IF id \notin reg.active
    THEN [reg |-> reg, val |-> None]
    ELSE LET t == reg.task[id]
             content == sink[id]
         IN IF content # <<>> /\ ContainsExitCode(content)
            THEN LET t1 == [t EXCEPT !.status = "completed"]
                     k == FirstExitCodeLine(content)
                 IN IF k # 0 /\ ~IsIntText(content[k].val)
                    THEN \* int() raises ValueError, caught at line 214
                         CheckTimeout(reg, id, t1)
                    ELSE LET t2 == [t1 EXCEPT
                                       !.return_code =
                                           IF k = 0 THEN t1.return_code
                                           ELSE Some(IntOf(content[k].val)),
                                       !.output = content]
                         IN [reg |-> [reg EXCEPT !.task[id] = t2,
                                                 !.active = @ \ {id},
                                                 !.completed = Append(@, id)],
                             val |-> Some(t2)]
            ELSE CheckTimeout(reg, id, t)

\* get_task_results: the ids of task_ids that have a task in completed_tasks
get_task_results(reg, ids) ==
    { ids[i] : i \in { j \in 1..Len(ids) :
                          \E k \in 1..Len(reg.completed) :
                              reg.task[reg.completed[k]].task_id = ids[j] } }

(***************************************************************************)
(* wait_for_tasks.  One pass of its for loop is one step: the polls of a   *)
(* pass touch disjoint tasks and a pass is short against TickStep.         *)
(***************************************************************************)
SetOf(ids) == { ids[i] : i \in 1..Len(ids) }

\* the orders in which list(remaining_tasks) may enumerate the set S
Orders(S) == { o \in [1..Cardinality(S) -> S] : SetOf(o) = S }

IsTerminalTask(id) == id \in Issued /\ task[id].status \in TerminalStatuses

\* lines 245-249 from the k-th id of the pass on; w is the state of the wait,
\* [reg, remaining, completed]
RECURSIVE ForLoop(_, _, _)
ForLoop(w, order, k) ==
    IF k > Len(order)
    THEN w
    ELSE LET r == check_task_status(w.reg, order[k])
             done == r.val # None /\ r.val[1].status \in TerminalStatuses
         IN ForLoop([reg |-> r.reg,
                     remaining |-> IF done THEN w.remaining \ {order[k]}
                                   ELSE w.remaining,
                     completed |-> IF done THEN Append(w.completed, order[k])
                                   ELSE w.completed],
                    order, k + 1)

\* lines 239-244: the call starts; an empty set never enters the loop
WaitBegin(ids, who) ==
    /\ task_ids' = ids
    /\ caller' = who
    /\ completed' = <<>>
    /\ remaining' = SetOf(ids)
    /\ pc' = IF SetOf(ids) = {} THEN "wait_done" ELSE "wait"

\* lines 244-250: one pass of the while loop, the first one or one after a
\* sleep; it ends the loop or goes to sleep
WaitPass(order) ==
    /\ UNCHANGED <<executorVars, routerVars>>
    /\ pc = "wait"
    /\ LET w == ForLoop([reg |-> Registry, remaining |-> remaining,
                         completed |-> completed], order, 1)
       IN /\ SetRegistry(w.reg)
          /\ remaining' = w.remaining
          /\ completed' = w.completed
          /\ pc' = IF w.remaining = {} THEN "wait_done" ELSE "sleep"
    /\ UNCHANGED <<now, sink, script, caller, task_ids, ret>>

\* lines 251-254: time.sleep(check_interval), then the next pass
WaitSleep ==
    /\ pc = "sleep"
    /\ pc' = "wait"
    /\ UNCHANGED <<now, nextId, task, active_tasks, completed_tasks, sink, script,
                   caller, task_ids, remaining, completed, ret>>
    /\ UNCHANGED <<executorVars, routerVars>>

(***************************************************************************)
(* TerminalManager.analyze_results over the results of get_task_results.   *)
(***************************************************************************)
\* line 319 divides by total_tasks: ZeroDivisionError on an empty result set
AnalyzeRaises(keys) == Cardinality(keys) = 0

\* wait_for_tasks returns to the dispatch path that called it:
\* collect_parallel_results lines 98-111, execute_in_new_terminal lines 128-130
WaitReturn ==
    /\ UNCHANGED <<executorVars, routerVars>>
    /\ pc = "wait_done"
    /\ pc' = "returned"
    /\ caller' = "none"
    /\ \/ /\ caller = "collect"
          /\ LET keys == get_task_results(Registry, task_ids)
             IN ret' = IF AnalyzeRaises(keys)
                       THEN [ret EXCEPT !.rc = -1, !.done = TRUE, !.raised = TRUE]
                       ELSE [ret EXCEPT !.rc = 0, !.done = TRUE, !.keys = keys]
       \/ /\ caller = "terminal"
          /\ LET t == task[completed[1]]
             IN ret' = [ret EXCEPT
                           !.done = TRUE,
                           !.val = Some(t),
                           !.rc = IF t.return_code = None THEN 0
                                  ELSE t.return_code[1]]
    /\ task_ids' = <<>>
    /\ remaining' = {}
    /\ completed' = <<>>
    /\ UNCHANGED <<now, nextId, task, active_tasks, completed_tasks, sink, script>>

(***************************************************************************)
(* Direct calls of the TerminalManager.                                    *)
(***************************************************************************)
\* all sequences over S of length lo..hi
SeqsOver(S, lo, hi) == UNION { [1..n -> S] : n \in lo..hi }

\* the id lists a call names: without repetition, in increasing order
IdLists ==
    { ids \in SeqsOver(Issued \cup {BogusId}, 0, MaxIdList) :
          \A i, j \in 1..Len(ids) : i < j => ids[i] < ids[j] }

\* terminal_manager.check_task_status(id)
CallCheckTaskStatus(id) ==
    /\ UNCHANGED <<executorVars, routerVars>>
    /\ pc = "idle"
    /\ LET r == check_task_status(Registry, id)
       IN /\ SetRegistry(r.reg)
          /\ ret' = [NoRet EXCEPT !.op = "check", !.ids = <<id>>,
                                  !.pre = IsTerminalTask(id), !.done = TRUE,
                                  !.val = r.val]
    /\ pc' = "returned"
    /\ UNCHANGED <<now, sink, script, caller, task_ids, remaining, completed>>

(***************************************************************************)
(* command_executor.execute_command and its dispatch paths.                *)
(***************************************************************************)
\* [s.strip() for s in payload.split(sep) if s.strip()]
NonEmpty(segs) == SelectSeq(segs, LAMBDA x : x # "")

ParallelPayloads == SeqsOver(TrackerCommands \cup {""}, 1, MaxTasks)

\* execute_parallel_commands, lines 62-71 from the k-th command on: the
\* registry after the launches; oks[k] says whether the k-th terminal spawns
RECURSIVE LaunchAll(_, _, _, _)
LaunchAll(reg, cmds, oks, k) ==
    IF k > Len(cmds)
    THEN reg
    ELSE LaunchAll(launch_terminal_task(reg, cmds[k], oks[k]), cmds, oks, k + 1)

\* execute_parallel_commands: the batch is launched and its ids are returned
execute_parallel_commands(segs, oks) ==
    /\ CanLaunch(Len(NonEmpty(segs)))
    /\ LET reg == LaunchAll(Registry, NonEmpty(segs), oks, 1)
       IN /\ SetRegistry(reg)
          /\ SpawnScripts(Registry, reg)
          /\ ret' = [NoRet EXCEPT
                        !.op = "parallel", !.done = TRUE, !.rc = 0,
                        !.ids = [i \in 1..Len(NonEmpty(segs)) |-> nextId + i - 1]]
    /\ pc' = "returned"
    /\ UNCHANGED <<now, sink, caller, task_ids, remaining, completed>>

\* collect_parallel_results, lines 90-96; WaitReturn is its lines 98-111
collect_parallel_results(ids, batch) ==
    /\ WaitBegin(ids, "collect")
    /\ ret' = [NoRet EXCEPT !.op = "collect", !.ids = ids, !.batch = batch,
                            !.pre = \A id \in SetOf(ids) : IsTerminalTask(id)]
    /\ UNCHANGED <<now, nextId, task, active_tasks, completed_tasks, sink, script>>

\* execute_in_new_terminal, lines 118-126; WaitReturn is its lines 128-130
execute_in_new_terminal(command, ok) ==
    /\ CanLaunch(1)
    /\ LET reg == launch_terminal_task(Registry, command, ok)
       IN /\ SetRegistry(reg)
          /\ SpawnScripts(Registry, reg)
    /\ WaitBegin(<<nextId>>, "terminal")
    /\ ret' = [NoRet EXCEPT !.op = "terminal", !.ids = <<nextId>>, !.pre = ~ok]
    /\ UNCHANGED <<now, sink>>

ShellOutcomes == {"exit0", "exit1", "timeout", "notfound", "error"}

\* execute_shell_command: subprocess.run and its except clauses
execute_shell_command(command, outcome) ==
    /\ ret' = [NoRet EXCEPT
                  !.op = "shell", !.done = TRUE,
                  !.rc = CASE outcome = "exit0" -> 0
                           [] outcome = "exit1" -> 1
                           [] outcome = "timeout" -> -100
                           [] outcome = "notfound" -> -101
                           [] outcome = "error" -> -102,
                  !.timed_out = (outcome = "timeout")]
    /\ pc' = "returned"
    /\ UNCHANGED <<now, nextId, task, active_tasks, completed_tasks, sink, script,
                   caller, task_ids, remaining, completed>>

\* execute_command, lines 45-52
execute_command ==
    /\ UNCHANGED <<executorVars, routerVars>>
    /\ pc = "idle"
    /\ \/ \E segs \in ParallelPayloads :
             \E oks \in [1..Len(NonEmpty(segs)) -> BOOLEAN] :
                execute_parallel_commands(segs, oks)
       \/ \E ids \in IdLists : collect_parallel_results(ids, FALSE)
       \/ \E c \in TrackerCommands, ok \in BOOLEAN : execute_in_new_terminal(c, ok)
       \/ \E c \in TrackerCommands, o \in ShellOutcomes : execute_shell_command(c, o)

\* test_parallel_execution, lines 30-46: the ids a parallel_execute dispatch
\* returned are given to a collect_results dispatch
CollectReturnedIds ==
    /\ UNCHANGED <<executorVars, routerVars>>
    /\ pc = "returned"
    /\ ret.op = "parallel"
    /\ collect_parallel_results(ret.ids, TRUE)

\* the caller has the value of the call and goes on to its next call
Continue ==
    /\ UNCHANGED <<executorVars, routerVars>>
    /\ pc = "returned"
    /\ pc' = "idle"
    /\ ret' = NoRet
    /\ UNCHANGED <<now, nextId, task, active_tasks, completed_tasks, sink, script,
                   caller, task_ids, remaining, completed>>

NextTracker ==
    \/ Tick
    \/ \E id \in TaskIds : ScriptStart(id)
    \/ \E id \in TaskIds, line \in UserLines : UserWrite(id, line)
    \/ \E id \in TaskIds, c \in ExitCodes : ScriptFinish(id, c)
    \/ \E id \in Issued \cup {BogusId} : CallCheckTaskStatus(id)
    \/ execute_command
    \/ CollectReturnedIds
    \/ \E order \in Orders(remaining) : WaitPass(order)
    \/ WaitSleep
    \/ WaitReturn
    \/ Continue

SpecTracker == Init /\ [][NextTracker]_vars

\* the poll loop of wait_for_tasks runs on, and the clock advances
FairTracker ==
    /\ SpecTracker
    /\ WF_vars(Tick)
    /\ WF_vars(\E order \in Orders(remaining) : WaitPass(order))
    /\ WF_vars(WaitSleep)
    /\ WF_vars(WaitReturn)
    /\ WF_vars(Continue)


(***************************************************************************)
(* The launches alone: parallel_execute dispatches and direct calls of      *)
(* launch_terminal_task, one after the other, with no poll in between.     *)
(***************************************************************************)
LaunchPayloads == SeqsOver(TrackerCommands \cup {""}, 1, MaxLaunched)

\* execute_command("parallel_execute:..."): execute_parallel_commands of
\* command_executor, lines 57-80
CallParallelExecute(segs, oks) ==
    /\ pc = "idle"
    /\ nextId + Len(NonEmpty(segs)) - 1 <= MaxLaunched
    /\ LET reg == LaunchAll(Registry, NonEmpty(segs), oks, 1)
       IN /\ SetRegistry(reg)
          /\ SpawnScripts(Registry, reg)
          /\ ret' = [NoRet EXCEPT
                        !.op = "parallel", !.done = TRUE, !.rc = 0,
                        !.ids = [i \in 1..Len(NonEmpty(segs)) |-> nextId + i - 1]]
    /\ pc' = "returned"
    /\ UNCHANGED <<now, sink, caller, task_ids, remaining, completed>>
    /\ UNCHANGED <<executorVars, routerVars>>

\* terminal_manager.launch_terminal_task(command, ...)
CallLaunchTerminalTask(command, ok) ==
    /\ pc = "idle"
    /\ nextId <= MaxLaunched
    /\ LET reg == launch_terminal_task(Registry, command, ok)
       IN /\ SetRegistry(reg)
          /\ SpawnScripts(Registry, reg)
          /\ ret' = [NoRet EXCEPT !.op = "launch", !.done = TRUE, !.ids = <<nextId>>]
    /\ pc' = "returned"
    /\ UNCHANGED <<now, sink, caller, task_ids, remaining, completed>>
    /\ UNCHANGED <<executorVars, routerVars>>

NextLauncher ==
    \/ \E segs \in LaunchPayloads :
          \E oks \in [1..Len(NonEmpty(segs)) -> BOOLEAN] : CallParallelExecute(segs, oks)
    \/ \E c \in TrackerCommands, ok \in BOOLEAN : CallLaunchTerminalTask(c, ok)
    \/ Continue

SpecLauncher == Init /\ [][NextLauncher]_vars


(***************************************************************************)
(* command_executor_v2: the ParallelExecutor and execute_command.          *)
(***************************************************************************)
ProcExitCodes == {0, 1, 2}

Batches == SeqsOver(SimpleCommands \cup {""}, 0, MaxBatch)

\* the children that have ended
Exited == { k \in 1..Len(x_procs) : x_procs[k].return_code # None }

\* a child process ends with code c, in any order among the children; rank
\* is the number of children that ended before it
ProcExit(k, c) ==
    /\ x_pc \in {"launch", "wait"}
    /\ k \in 1..Len(x_procs)
    /\ x_procs[k].return_code = None
    /\ x_procs' = [x_procs EXCEPT ![k].return_code = Some(c),
                                  ![k].rank = Cardinality(Exited)]
    /\ UNCHANGED <<trackerVars, routerVars>>
    /\ UNCHANGED <<x_pc, x_caller, x_cmds, x_i, x_task_ids, x_active, x_results, x_ret>>

\* execute_parallel_commands, lines 41-43: the call starts
BatchBegin(commands, who) ==
    /\ x_caller' = who
    /\ x_cmds' = commands
    /\ x_i' = 1
    /\ x_task_ids' = <<>>
    /\ x_procs' = <<>>
    /\ x_results' = <<>>
    /\ x_pc' = "launch"

\* the task id without the index of the command
BatchTaskIdNoIndex(i) == <<now, 0>>

\* f"task_{int(time.time() * 1000)}_{i}", i counted from 0
BatchTaskId(i) == <<now, i - 1>>

\* active_tasks[task_id] = info
PutActive(active, task_id, command) ==
    { e \in active : e[1] # task_id } \cup {<<task_id, command>>}

\* lines 47-48: a blank command is skipped
BatchSkip ==
    /\ x_pc = "launch"
    /\ x_i <= Len(x_cmds)
    /\ x_cmds[x_i] = ""
    /\ x_i' = x_i + 1
    /\ UNCHANGED <<trackerVars, routerVars>>
    /\ UNCHANGED <<x_pc, x_caller, x_cmds, x_task_ids, x_procs, x_active, x_results,
                   x_ret>>

\* lines 50-76: the next command is launched; when Popen (or the open of the
\* output file) raises, nothing catches it and the call ends with the exception
BatchLaunch(ok) ==
    /\ x_pc = "launch"
    /\ x_i <= Len(x_cmds)
    /\ x_cmds[x_i] # ""
    /\ x_task_ids' = Append(x_task_ids, BatchTaskId(x_i))
    /\ IF ok
       THEN /\ x_procs' = Append(x_procs, [task_id |-> BatchTaskId(x_i),
                                           command |-> x_cmds[x_i],
                                           return_code |-> None,
                                           rank |-> 0])
            /\ x_active' = PutActive(x_active, BatchTaskId(x_i), x_cmds[x_i])
            /\ x_i' = x_i + 1
            /\ UNCHANGED <<x_pc, x_ret>>
       ELSE /\ x_pc' = "raised"
            /\ x_ret' = [x_ret EXCEPT !.raised = TRUE,
                                      !.ran = { x_procs[k].command : k \in 1..Len(x_procs) }]
            /\ UNCHANGED <<x_procs, x_active, x_i>>
    /\ UNCHANGED <<trackerVars, routerVars>>
    /\ UNCHANGED <<x_caller, x_cmds, x_results>>

\* the wait loop that starts as soon as one command has been looked at
BatchLaunchedEarly ==
    /\ x_pc = "launch"
    /\ x_i > 1
    /\ x_pc' = "wait"
    /\ x_i' = 1
    /\ UNCHANGED <<trackerVars, routerVars>>
    /\ UNCHANGED <<x_caller, x_cmds, x_task_ids, x_procs, x_active, x_results, x_ret>>

\* line 79: every command is launched, the wait loop starts
BatchLaunched ==
    /\ x_pc = "launch"
    /\ x_i > Len(x_cmds)
    /\ x_pc' = "wait"
    /\ x_i' = 1
    /\ UNCHANGED <<trackerVars, routerVars>>
    /\ UNCHANGED <<x_caller, x_cmds, x_task_ids, x_procs, x_active, x_results, x_ret>>

\* the command active_tasks holds for task_id
ActiveCommand(task_id) == (CHOOSE e \in x_active : e[1] = task_id)[2]

\* lines 82-108: process.wait() returns for the next process of the list
BatchWait ==
    /\ x_pc = "wait"
    /\ x_i <= Len(x_procs)
    /\ x_procs[x_i].return_code # None
    /\ LET return_code == x_procs[x_i].return_code[1]
           task_id == x_procs[x_i].task_id
       IN x_results' = Append(x_results,
                              [task_id |-> task_id,
                               command |-> ActiveCommand(task_id),
                               return_code |-> return_code,
                               status |-> IF return_code = 0 THEN "success"
                                          ELSE "failed"])
    /\ x_i' = x_i + 1
    /\ UNCHANGED <<trackerVars, routerVars>>
    /\ UNCHANGED <<x_pc, x_caller, x_cmds, x_task_ids, x_procs, x_active, x_ret>>

\* the count that takes a result for failed only when its code is 1
CountStatusCodeOne(results, status) ==
    Cardinality({ k \in 1..Len(results) :
                     /\ results[k].status = status
                     /\ results[k].return_code \in {0, 1} })

CountStatus(results, status) ==
    Cardinality({ k \in 1..Len(results) : results[k].status = status })

\* lines 117-124
BatchResult(results, ids) ==
    [total_tasks |-> Len(results),
     successful_tasks |-> CountStatus(results, "success"),
     failed_tasks |-> CountStatus(results, "failed"),
     results |-> results,
     task_ids |-> ids]

\* the return without the clean up of lines 110-113
BatchReturnNoCleanUp ==
    /\ x_pc = "wait"
    /\ x_i > Len(x_procs)
    /\ x_ret' = [x_ret EXCEPT
                    !.done = TRUE, !.rc = 0, !.timed_out = FALSE,
                    !.ran = { x_procs[k].command : k \in 1..Len(x_procs) },
                    !.batch = Some(BatchResult(x_results, x_task_ids))]
    /\ x_pc' = "returned"
    /\ UNCHANGED <<trackerVars, routerVars>>
    /\ UNCHANGED <<x_caller, x_cmds, x_i, x_task_ids, x_procs, x_results, x_active>>

\* lines 110-124: clean up and return; execute_command, lines 214-237, returns
\* the summary with code 0
BatchReturn ==
    /\ x_pc = "wait"
    /\ x_i > Len(x_procs)
    /\ x_active' = { e \in x_active : e[1] \notin SetOf(x_task_ids) }
    /\ x_ret' = [x_ret EXCEPT
                    !.done = TRUE, !.rc = 0, !.timed_out = FALSE,
                    !.ran = { x_procs[k].command : k \in 1..Len(x_procs) },
                    !.batch = Some(BatchResult(x_results, x_task_ids))]
    /\ x_pc' = "returned"
    /\ UNCHANGED <<trackerVars, routerVars>>
    /\ UNCHANGED <<x_caller, x_cmds, x_i, x_task_ids, x_procs, x_results>>

\* parallel_executor.execute_parallel_commands(commands, ...)
CallExecuteParallelCommands(commands) ==
    /\ x_pc = "idle"
    /\ BatchBegin(commands, "api")
    /\ x_ret' = [NoXRet EXCEPT !.op = "batch"]
    /\ UNCHANGED <<trackerVars, routerVars>>
    /\ UNCHANGED x_active

\* execute_command, line 193: "not" of the tuple validate_command returns
GateRejects(command) == ~TupleTruth(validate_command(command))

\* the text of a command string: its prefix, then its segments with a ';'
\* between two of them
RECURSIVE Join(_, _)
Join(segs, k) ==
    IF k > Len(segs) THEN ""
    ELSE IF k = Len(segs) THEN segs[k]
    ELSE segs[k] \o ";" \o Join(segs, k + 1)
RawText(command) == command.prefix \o Join(command.segs, 1)

\* SUDO_PASSWORD = os.getenv("SUDO_PASSWORD"): None, or the credential
Passwords == {None, Some("pw")}

\* any(cmd in command for cmd in ['nmap', 'masscan', 'tcpdump']), line 290
NeedsSudo(command) ==
    \E i \in 1..Len(command.segs) : command.segs[i] \in {"nmap x", "sudo -S nmap x"}

\* lines 292-296: the command line given to subprocess.run
full_command(command, password) ==
    IF NeedsSudo(command) /\ password # None /\ password # Some("")
    THEN "echo '" \o password[1] \o "' | sudo -S " \o RawText(command)
    ELSE RawText(command)

\* the try of lines 187-190 and 313-316 without its except clause
TryLogPropagates(ok) == IF ok THEN "ok" ELSE "raised"

\* lines 187-190 and 313-316: logger.log_security_event in a try whose
\* except clause passes; ok says whether the logger works
TryLog(ok) == "ok"

\* execute_command of command_executor_v2, lines 186-333: the value it
\* returns or the exception it raises; for a parallel_execute command with a
\* command to run, the call of the ParallelExecutor it goes on to
DispatchV2(command, run_in_terminal, outcome, log1, log2, password) ==
    LET call == [NoXRet EXCEPT !.command = Some(command), !.logs = <<log1, log2>>]
        args == [call EXCEPT !.run_in_terminal = run_in_terminal,
                             !.outcome = outcome, !.password = password]
        ran == IF outcome \in {"exit0", "exit1", "timeout"} THEN TRUE ELSE FALSE
    IN IF TryLog(log1) = "raised"
       THEN [args EXCEPT !.op = "logging", !.raised = TRUE]
       ELSE IF GateRejects(command)
       THEN [args EXCEPT !.op = "rejected", !.done = TRUE, !.rc = -1,
                         !.timed_out = TRUE]
       ELSE IF command.prefix = "parallel_execute:"
       THEN IF NonEmpty(command.segs) = <<>>
            THEN [args EXCEPT !.op = "parallel", !.done = TRUE, !.rc = -1,
                              !.timed_out = TRUE]
            ELSE [call EXCEPT !.op = "parallel"]
       ELSE IF command.prefix = "collect_results:"
       THEN [args EXCEPT !.op = "collect", !.done = TRUE, !.rc = 0]
       ELSE IF run_in_terminal
       THEN \* lines 248-278: open and subprocess.run stand in no try
            IF outcome \in {"exit0", "exit1"}
            THEN [args EXCEPT !.op = "terminal", !.done = TRUE,
                              !.rc = IF outcome = "exit0" THEN 0 ELSE 1,
                              !.ran = {RawText(command)}]
            ELSE [args EXCEPT !.op = "terminal", !.raised = TRUE,
                              !.ran = IF ran THEN {RawText(command)} ELSE {}]
       ELSE IF command.prefix = "custom_function:"
       THEN [args EXCEPT !.op = "custom", !.done = TRUE,
                         !.rc = IF outcome = "exit0" THEN 0 ELSE -1,
                         !.timed_out = (outcome # "exit0")]
       ELSE \* lines 286-333: subprocess.run of the command
            IF outcome \in {"exit0", "exit1"} /\ TryLog(log2) = "raised"
            THEN [args EXCEPT !.op = "logging", !.done = TRUE, !.rc = -1,
                              !.timed_out = TRUE,
                              !.ran = {full_command(command, password)}]
            ELSE [args EXCEPT
                     !.op = "shell", !.done = TRUE,
                     !.rc = CASE outcome = "exit0" -> 0
                              [] outcome = "exit1" -> 1
                              [] OTHER -> -1,
                     !.timed_out = (outcome # "exit0"),
                     !.ran = IF ran THEN {full_command(command, password)} ELSE {}]

\* execute_command of command_executor_v2
execute_command_v2(command, run_in_terminal, outcome, log1, log2, password) ==
    /\ x_pc = "idle"
    /\ UNCHANGED <<trackerVars, routerVars>>
    /\ LET r == DispatchV2(command, run_in_terminal, outcome, log1, log2, password)
       IN /\ x_ret' = r
          /\ IF r.done \/ r.raised
             THEN /\ x_pc' = IF r.raised THEN "raised" ELSE "returned"
                  /\ UNCHANGED <<x_caller, x_cmds, x_i, x_task_ids, x_procs,
                                 x_active, x_results>>
             ELSE /\ BatchBegin(NonEmpty(command.segs), "dispatch")
                  /\ UNCHANGED x_active

\* the command strings given to execute_command
Commands ==
    { Simple(c) : c \in SimpleCommands \cup {"", "exit", "nmap x"} }
        \cup { Parallel(segs) : segs \in SeqsOver(SimpleCommands \cup {""}, 1, MaxBatch) }
        \cup { [prefix |-> "custom_function:", segs |-> <<"quick_scan">>],
               [prefix |-> "collect_results:", segs |-> <<"deadbeef">>] }

\* the caller has the value (or the exception) of the call and goes on
ContinueExecutor ==
    /\ x_pc \in {"returned", "raised"}
    /\ x_pc' = "idle"
    /\ x_caller' = "none"
    /\ x_cmds' = <<>>
    /\ x_i' = 1
    /\ x_task_ids' = <<>>
    /\ x_procs' = <<>>
    /\ x_results' = <<>>
    /\ x_ret' = NoXRet
    /\ UNCHANGED <<trackerVars, routerVars>>
    /\ UNCHANGED x_active

NextExecutor ==
    \/ Tick
    \/ \E k \in 1..MaxBatch, c \in ProcExitCodes : ProcExit(k, c)
    \/ \E commands \in Batches : CallExecuteParallelCommands(commands)
    \/ \E command \in Commands, t \in BOOLEAN, o \in ShellOutcomes,
          log1 \in BOOLEAN, log2 \in BOOLEAN, pw \in Passwords :
             execute_command_v2(command, t, o, log1, log2, pw)
    \/ BatchSkip
    \/ \E ok \in BOOLEAN : BatchLaunch(ok)
    \/ BatchLaunched
    \/ BatchWait
    \/ BatchReturn
    \/ ContinueExecutor

SpecExecutor == Init /\ [][NextExecutor]_vars


(***************************************************************************)
(* command_executor.execute_command as a function of its arguments, and    *)
(* direct calls of it and of the validator.                                *)
(***************************************************************************)
\* f'echo "{SUDO_PASSWORD}" | sudo -S ', line 246: an f-string writes None
\* as the text None
EchoPipe(password) ==
    "echo \"" \o (IF password = None THEN "None" ELSE password[1]) \o "\" | sudo -S "

\* line.replace("sudo ", pipe), line 246
ReplaceSudo(line, pipe) ==
    CASE line = "sudo id" -> pipe \o "id"
      [] line = "sudo -S nmap x" -> pipe \o "-S nmap x"
      [] OTHER -> line

\* execute_shell_command, lines 238-252: no line here holds "apt " or
\* "apt-get ", so lines 249-252 leave it as it is
processed_command(command, password) ==
    IF \E i \in 1..Len(command.segs) : SudoIn(command.segs[i])
    THEN command.prefix
            \o Join([i \in 1..Len(command.segs) |->
                       ReplaceSudo(command.segs[i], EchoPipe(password))], 1)
    ELSE RawText(command)

\* platform.system(), line 255
Platforms == {"Linux", "Plan9"}

\* what a dispatch of command_executor.execute_command returns
NoResult == [op |-> "none", done |-> FALSE, rc |-> 0, timed_out |-> FALSE, ran |-> {}]

\* execute_command of command_executor, lines 32-52, with the paths that
\* return at once: execute_custom_function, execute_tool_installation,
\* execute_report_generation (outcome "exit0" is their success) and
\* execute_shell_command; the three paths of the Tracker are named only
DispatchV1(command, run_in_terminal, outcome, password, platform) ==
    LET helper(op) == [NoResult EXCEPT !.op = op, !.done = TRUE,
                                       !.rc = IF outcome = "exit0" THEN 0 ELSE -1]
    IN CASE RawText(command) = "" ->
              [NoResult EXCEPT !.op = "empty", !.done = TRUE, !.rc = -1]
         [] command = Simple("exit") ->
              [NoResult EXCEPT !.op = "exit", !.done = TRUE, !.rc = 0]
         [] command.prefix = "custom_function:" -> helper("custom")
         [] command.prefix = "install_tool:" -> helper("install")
         [] command = Simple("report_generation") -> helper("report")
         [] command.prefix = "parallel_execute:" -> [NoResult EXCEPT !.op = "parallel"]
         [] command.prefix = "collect_results:" -> [NoResult EXCEPT !.op = "collect"]
         [] OTHER ->
              IF run_in_terminal
              THEN [NoResult EXCEPT !.op = "terminal"]
              ELSE IF platform \notin {"Windows", "Linux", "Darwin"}
              THEN [NoResult EXCEPT !.op = "shell", !.done = TRUE, !.rc = -1]
              ELSE [NoResult EXCEPT
                       !.op = "shell", !.done = TRUE,
                       !.rc = CASE outcome = "exit0" -> 0
                                [] outcome = "exit1" -> 1
                                [] outcome = "timeout" -> -100
                                [] outcome = "notfound" -> -101
                                [] outcome = "error" -> -102,
                       !.timed_out = (outcome = "timeout"),
                       !.ran = IF outcome \in {"exit0", "exit1", "timeout"}
                               THEN {processed_command(command, password)}
                               ELSE {}]

\* the command strings given to command_executor.execute_command
RouterCommands ==
    { Simple(c) : c \in ShellLines \cup {"", "exit", "report_generation"} }
        \cup { [prefix |-> p, segs |-> <<"quick_scan">>] :
                  p \in {"custom_function:", "install_tool:"} }
        \cup { [prefix |-> "collect_results:", segs |-> <<"deadbeef">>] }
        \cup { Parallel(segs) : segs \in SeqsOver({"echo ok", ""}, 1, 2) }

\* the command strings given to validate_command
ValidatorCommands ==
    { Simple(c) : c \in ShellLines \cup {""} }
        \cup { Parallel(segs) : segs \in SeqsOver(ShellLines, 2, 2) }

\* execute_command(command, run_in_terminal=...) of command_executor
CallExecuteCommand(command, run_in_terminal, outcome, password, platform) ==
    /\ r_call = NoCall
    /\ r_call' = [fn |-> "execute_command", command |-> Some(command),
                  run_in_terminal |-> run_in_terminal, outcome |-> outcome,
                  password |-> password, platform |-> platform]
    /\ r_ret' = DispatchV1(command, run_in_terminal, outcome, password, platform)
    /\ UNCHANGED <<trackerVars, executorVars>>

\* CommandValidator().validate_command(command)
CallValidateCommand(command) ==
    /\ r_call = NoCall
    /\ r_call' = [NoCall EXCEPT !.fn = "validate_command", !.command = Some(command)]
    /\ r_ret' = validate_command(command)
    /\ UNCHANGED <<trackerVars, executorVars>>

\* ParallelExecutor.analyze_results, lines 126-175.  A result carries the
\* command, the status and the output of a task; a finding is the text of a
\* label followed by the command, kept as [label, command].
AnalyzedCommands == {"nmap x", "nmap -oN open ports.txt x", "curl x", "nikto x", "echo ok"}
AnalyzedOutputs ==
    {"", "22/tcp OPEN ssh", "22/tcp open|filtered", "Server: nginx", "+ Vuln found", "hello"}

\* results of one parallel_result
MaxAnalyzed == 1

\* needle in text, for the words the analysis looks for in a command: none
\* of the commands here holds curl's or nikto's name beside its own
WordInCommand(word, command) ==
    CASE word = "nmap" -> command \in {"nmap x", "nmap -oN open ports.txt x"}
      [] word = "curl" -> command = "curl x"
      [] word = "nikto" -> command = "nikto x"
      [] word = "open ports" -> command = "nmap -oN open ports.txt x"
      [] OTHER -> FALSE

\* word in output.lower(), lines 134-150
WordInLowerOutput(word, output) ==
    CASE word = "open" -> output \in {"22/tcp OPEN ssh", "22/tcp open|filtered"}
      [] word = "filtered" -> output = "22/tcp open|filtered"
      [] word = "server:" -> output = "Server: nginx"
      [] word = "vuln" -> output = "+ Vuln found"
      [] OTHER -> FALSE

\* the labels of the findings, lines 139-151
OpenPortsLabel == "Open ports detected: "
FilteredPortsLabel == "Filtered ports found: "
ServerInfoLabel == "Web server information disclosed: "
VulnerabilitiesLabel == "Web vulnerabilities detected: "

\* needle in label: the search of lines 162-169 minds the case of letters
NeedleInLabel(needle, label) ==
    \/ needle = "server information" /\ label = ServerInfoLabel
    \/ needle = "vulnerabilities" /\ label = VulnerabilitiesLabel

\* needle in f, for a finding f
NeedleInFinding(needle, f) ==
    NeedleInLabel(needle, f.label) \/ WordInCommand(needle, f.command)

\* lines 133-159: the findings of one result, in the order they are appended
FindingsOf(result) ==
    IF result.status = "success" /\ result.output # ""
    THEN IF WordInCommand("nmap", result.command)
         THEN (IF WordInLowerOutput("open", result.output)
               THEN <<[label |-> OpenPortsLabel, command |-> result.command]>>
               ELSE <<>>)
              \o (IF WordInLowerOutput("filtered", result.output)
                  THEN <<[label |-> FilteredPortsLabel, command |-> result.command]>>
                  ELSE <<>>)
         ELSE IF WordInCommand("curl", result.command)
         THEN IF WordInLowerOutput("server:", result.output)
              THEN <<[label |-> ServerInfoLabel, command |-> result.command]>>
              ELSE <<>>
         ELSE IF WordInCommand("nikto", result.command)
         THEN IF WordInLowerOutput("vuln", result.output)
              THEN <<[label |-> VulnerabilitiesLabel, command |-> result.command]>>
              ELSE <<>>
         ELSE <<>>
    ELSE <<>>

RECURSIVE FindingsFrom(_, _)
FindingsFrom(results, k) ==
    IF k > Len(results) THEN <<>>
    ELSE FindingsOf(results[k]) \o FindingsFrom(results, k + 1)

\* 'open ports', line 162
OpenPortsNeedle == "open ports"

\* lines 161-169: the recommendations, in the order they are appended
RecommendationsOf(findings) ==
    LET any(needle) == \E i \in 1..Len(findings) : NeedleInFinding(needle, findings[i])
    IN (IF any(OpenPortsNeedle)
        THEN <<"Review open ports and disable unnecessary services">> ELSE <<>>)
       \o (IF any("server information")
           THEN <<"Configure web server to hide version information">> ELSE <<>>)
       \o (IF any("vulnerabilities")
           THEN <<"Prioritize patching identified web vulnerabilities">> ELSE <<>>)

analyze_results(parallel_result) ==
    LET findings == FindingsFrom(parallel_result.results, 1)
    IN [findings |-> findings, recommendations |-> RecommendationsOf(findings)]

AnalyzedResults ==
    [command : AnalyzedCommands, status : {"success", "failed"}, output : AnalyzedOutputs]

\* parallel_executor.analyze_results(parallel_result); the argument of the
\* call is kept in the command field of r_call
CallAnalyzeResults(results) ==
    /\ r_call = NoCall
    /\ r_call' = [NoCall EXCEPT
                     !.fn = "analyze_results",
                     !.command = Some([results |-> results, total_tasks |-> Len(results)])]
    /\ r_ret' = analyze_results([results |-> results, total_tasks |-> Len(results)])
    /\ UNCHANGED <<trackerVars, executorVars>>

\* the caller has the value of the call and goes on to its next call
ContinueRouter ==
    /\ r_call # NoCall
    /\ r_call' = NoCall
    /\ r_ret' = None
    /\ UNCHANGED <<trackerVars, executorVars>>

NextRouter ==
    \/ \E command \in RouterCommands, t \in BOOLEAN, o \in ShellOutcomes,
          pw \in Passwords, pf \in Platforms :
             CallExecuteCommand(command, t, o, pw, pf)
    \/ \E command \in ValidatorCommands : CallValidateCommand(command)
    \/ \E results \in SeqsOver(AnalyzedResults, 0, MaxAnalyzed) : CallAnalyzeResults(results)
    \/ ContinueRouter

SpecRouter == Init /\ [][NextRouter]_vars


(***************************************************************************)
(* The claims.                                                             *)
(***************************************************************************)

\* C1 (as claimed): a command the Security Gate rejects never reaches
\* execution: no child process is ever started for a command that matches a
\* blocking pattern, neither by the batch path nor by the shell path.
C1_BlockedNeverRuns ==
    /\ \A k \in 1..Len(x_procs) : ~MatchesBlockedPattern(Simple(x_procs[k].command))
    /\ \A c \in x_ret.ran : ~MatchesBlockedPattern(Simple(c))

\* the k-th non-blank command of commands stands at this index
RECURSIVE IndexOfNonEmpty(_, _, _)
IndexOfNonEmpty(commands, k, from) ==
    IF commands[from] # ""
    THEN IF k = 1 THEN from ELSE IndexOfNonEmpty(commands, k - 1, from + 1)
    ELSE IndexOfNonEmpty(commands, k, from + 1)

\* C2: a batch of N non-blank commands returns exactly N results, and result
\* k carries the k-th non-blank command, the id made from that command's
\* index and the exit code of that command's process, in whatever order the
\* processes ended.
C2_ResultsInInputOrder ==
    (x_pc = "returned" /\ x_ret.batch # None) =>
        LET b == x_ret.batch[1]
            cmds == NonEmpty(x_cmds)
        IN /\ Len(b.results) = Len(cmds)
           /\ Len(b.task_ids) = Len(cmds)
           /\ \A k \in 1..Len(cmds) :
                 /\ b.results[k].command = cmds[k]
                 /\ b.results[k].task_id = b.task_ids[k]
                 /\ b.results[k].task_id[2] = IndexOfNonEmpty(x_cmds, k, 1) - 1
                 /\ x_procs[k].command = cmds[k]
                 /\ b.results[k].return_code = x_procs[k].return_code[1]

\* a batch of two has returned whose second process ended before its first,
\* with a different exit code
C2_Witness ==
    /\ x_pc = "returned"
    /\ x_ret.batch # None
    /\ Len(x_ret.batch[1].results) = 2
    /\ x_procs[2].rank = 0
    /\ x_procs[1].rank = 1
    /\ x_procs[1].return_code # x_procs[2].return_code
    /\ x_procs[1].command # x_procs[2].command

\* C3: in every BatchResult successful_tasks + failed_tasks = total_tasks,
\* and a process that ends with a non-zero code c yields a result with
\* status failed and return_code c.
C3_CountsAndExitCodes ==
    (x_pc = "returned" /\ x_ret.batch # None) =>
        LET b == x_ret.batch[1]
        IN /\ b.successful_tasks + b.failed_tasks = b.total_tasks
           /\ b.total_tasks = Len(x_procs)
           /\ \A k \in 1..Len(x_procs) :
                 x_procs[k].return_code # Some(0) =>
                    /\ b.results[k].status = "failed"
                    /\ Some(b.results[k].return_code) = x_procs[k].return_code

\* a batch has returned with a process that ended with code 2 beside one
\* that ended with code 0
C3_Witness ==
    /\ x_pc = "returned"
    /\ x_ret.batch # None
    /\ \E k \in 1..Len(x_procs) : x_procs[k].return_code = Some(2)
    /\ \E k \in 1..Len(x_procs) : x_procs[k].return_code = Some(0)
    /\ x_ret.batch[1].failed_tasks = 1

\* C4 (as claimed): a collect_results dispatch on exactly the ids a
\* parallel_execute dispatch returned eventually returns, with an entry for
\* every one of those ids, whether the launches spawned a terminal or failed.
C4_CollectOfBatchReturns ==
    (ret.op = "collect" /\ ret.batch /\ ~ret.done)
        ~> (ret.op = "collect" /\ ret.batch /\ ret.done /\ ret.keys = SetOf(ret.ids))

\* C5 (as claimed): a collect_results dispatch that names an id that was
\* never launched completes, and its result set omits that id.
C5_CollectOfUnknownIdReturns ==
    (ret.op = "collect" /\ BogusId \in SetOf(ret.ids) /\ ~ret.done)
        ~> (ret.op = "collect" /\ ret.done /\ BogusId \notin ret.keys)

\* C6 (as claimed): wait_for_tasks called on ids that are all already
\* terminal returns without ever going to sleep between polls.
C6_NoSleepWhenAllTerminal ==
    (ret.op \in {"collect", "terminal"} /\ ret.pre) => pc # "sleep"

\* C7 (as claimed): check_task_status called on a task that is already
\* terminal returns that task, in its terminal state.
C7_CheckReturnsTerminalState ==
    (pc = "returned" /\ ret.op = "check" /\ ret.pre) =>
        ret.val = Some(task[ret.ids[1]])

\* the script of task id wrote its completion sentinel, the line of its
\* trap that carries a date, within COMMAND_TIMEOUT_SECONDS of the task's
\* start_time
SentinelInTime(id) ==
    \E i \in 1..Len(sink[id]) :
        /\ sink[id][i].at # NoDate
        /\ sink[id][i].at - task[id].start_time <= COMMAND_TIMEOUT_SECONDS

\* the step polls task id: a direct check_task_status call, or a pass of
\* wait_for_tasks with id among the remaining ids
Polled(id) ==
    /\ now' = now /\ sink' = sink /\ script' = script
    /\ \/ pc = "idle" /\ ret'.op = "check" /\ ret'.ids = <<id>>
       \/ pc = "wait" /\ id \in remaining

\* C8 (as claimed): a running task whose sink holds no completion sentinel
\* written within COMMAND_TIMEOUT_SECONDS of its start_time goes to timeout,
\* and to no other terminal state, at the poll that follows the timeout.
C8_TimedOutWhenPolled ==
    [][\A id \in TaskIds :
          ( /\ id \in active_tasks
            /\ task[id].status = "running"
            /\ Polled(id)
            /\ now - task[id].start_time > COMMAND_TIMEOUT_SECONDS
            /\ ~SentinelInTime(id) )
          => task'[id].status = "timeout"]_vars

\* C9 (as claimed): once a task's status is completed, failed or timeout, no
\* later step changes the task, and the task is in completed_tasks and not
\* in active_tasks.
C9_TerminalIsFinal ==
    [][\A id \in Issued :
          task[id].status \in TerminalStatuses =>
             /\ task'[id] = task[id]
             /\ id \notin active_tasks
             /\ id \in SetOf(completed_tasks)]_vars

\* C10 (as claimed): a command of a batch whose child process cannot be
\* spawned does not end the batch: the batch goes on and returns a
\* BatchResult with a result for every command.
C10_SpawnFailureIsolated ==
    Len(x_task_ids) > Len(x_procs) =>
        /\ x_pc # "raised"
        /\ x_pc = "returned" => Len(x_ret.batch[1].results) = Len(x_task_ids)

\* C13 (as claimed): a parallel_execute command whose payload has no
\* non-empty segment yields an error result, a return code other than 0, and
\* launches no task.
C13_EmptyPayloadIsError ==
    [][(pc' = "returned" /\ ret'.op = "parallel" /\ ret'.ids = <<>>) =>
          /\ ret'.rc # 0
          /\ nextId' = nextId
          /\ active_tasks' = active_tasks]_vars

\* C15 (as claimed): a dispatch that reports a failure the core synthesized,
\* a timeout included, returns a negative return code, on the terminal path
\* as on the shell path.
C15_SynthesizedCodesNegative ==
    /\ (pc = "returned" /\ ret.op = "shell" /\ ret.timed_out) => ret.rc < 0
    /\ (pc = "returned" /\ ret.op = "terminal" /\ ret.val # None
            /\ ret.val[1].status \in {"timeout", "failed"}) => ret.rc < 0

\* C18 (as claimed): a task that times out takes as its output what its sink
\* held when the timeout was detected, and the dispatch that waited for it
\* returns with the timed_out flag set.
C18_TimeoutReportedWithOutput ==
    [][/\ \A id \in Issued :
             (task[id].status = "running" /\ task'[id].status = "timeout")
                => task'[id].output = sink[id]
       /\ (pc' = "returned" /\ ret'.op = "terminal" /\ ret'.val # None
               /\ ret'.val[1].status = "timeout") => ret'.timed_out]_vars

\* C19 (as claimed): the collect_results dispatch, which calls
\* get_task_results, print_results_summary and analyze_results, returns the
\* analysis for every list of ids it is given: no summary call raises.
C19_SummaryAlwaysReturns ==
    (pc = "returned" /\ ret.op = "collect") => (~ret.raised /\ ret.rc = 0)

\* the rule the classification order of the claim gives a command
ClaimedRoute(command, run_in_terminal) ==
    CASE RawText(command) = "" -> "empty"
      [] command = Simple("exit") -> "exit"
      [] command.prefix = "custom_function:" -> "custom"
      [] command.prefix = "install_tool:" -> "install"
      [] command = Simple("report_generation") -> "report"
      [] command.prefix = "parallel_execute:" -> "parallel"
      [] command.prefix = "collect_results:" -> "collect"
      [] run_in_terminal -> "terminal"
      [] OTHER -> "shell"

\* C11 (as claimed): execute_command routes a command by the first rule that
\* matches in the order empty, exit, custom_function:, install_tool:,
\* report_generation, parallel_execute:, collect_results:, run_in_terminal,
\* otherwise: a command with a special prefix goes the way of its prefix
\* whatever run_in_terminal is.
C11_RoutedByPrefix ==
    (x_ret.command # None /\ x_ret.command[1].prefix # "") =>
        x_ret.op = ClaimedRoute(x_ret.command[1], x_ret.run_in_terminal)

\* C12 (as claimed): the dispatch of the empty command string returns an
\* error result and starts no process.
C12_EmptyCommandIsError ==
    (x_ret.command = Some(Simple("")) /\ x_pc = "returned") =>
        /\ x_ret.rc < 0
        /\ x_ret.ran = {}

\* C14: a logger that fails never keeps execute_command from returning: the
\* dispatch raises nothing on account of the logger and returns, or goes on
\* to, exactly what it does with a logger that works.
C14_LoggingFailureSwallowed ==
    x_ret.command # None =>
        LET ideal == DispatchV2(x_ret.command[1], x_ret.run_in_terminal,
                                x_ret.outcome, TRUE, TRUE, x_ret.password)
        IN /\ x_ret.op # "logging"
           /\ x_ret.op = ideal.op
           /\ (ideal.done \/ ideal.raised) =>
                 [x_ret EXCEPT !.logs = <<TRUE, TRUE>>] = ideal

\* a shell command has run and returned with both calls of the logger failing
C14_Witness ==
    /\ x_pc = "returned"
    /\ x_ret.op = "shell"
    /\ x_ret.logs = <<FALSE, FALSE>>
    /\ x_ret.done
    /\ x_ret.rc = 0
    /\ x_ret.ran # {}

\* a heuristic of validate_command fires on the command: its length, its
\* pipes or a command substitution
HeuristicFires(command) ==
    \/ CommandLength(command) > LongCommandLength
    \/ CommandPipes(command) > ManyPipes
    \/ \E i \in 1..Len(command.segs) : SubstitutionIn(command.segs[i])

\* C16 (as claimed): for a command that matches no blocking pattern,
\* validate_command returns HIGH or above when a warning pattern matches and
\* MEDIUM or above when a heuristic fires: a heuristic never lowers HIGH.
C16_RiskNeverLowered ==
    (r_call.fn = "validate_command" /\ ~MatchesBlockedPattern(r_call.command[1])) =>
        LET command == r_call.command[1]
        IN /\ (\E i \in 1..Len(WarningPatterns) :
                  MatchesWarning(WarningPatterns[i], command))
                 => r_ret[2] \in {"HIGH", "CRITICAL"}
           /\ HeuristicFires(command) => r_ret[2] \in {"MEDIUM", "HIGH", "CRITICAL"}

\* C17: for a command that matches a blocking pattern, validate_command
\* returns allowed = false, risk_level CRITICAL and exactly one warning,
\* whatever warning patterns and heuristics the command matches as well.
C17_BlockedShortCircuits ==
    (r_call.fn = "validate_command" /\ MatchesBlockedPattern(r_call.command[1])) =>
        /\ r_ret[1] = FALSE
        /\ r_ret[2] = "CRITICAL"
        /\ Len(r_ret[3]) = 1

\* the validator has returned for a blocked command that matches a warning
\* pattern and holds a command substitution too
C17_Witness ==
    /\ r_call.fn = "validate_command"
    /\ r_call.command = Some(Simple("rm -rf / /etc/passwd $(id)"))
    /\ MatchesWarning("/etc/passwd", r_call.command[1])
    /\ HeuristicFires(r_call.command[1])
    /\ r_ret[1] = FALSE

\* C20 (as claimed): with no SUDO_PASSWORD configured the shell path runs the
\* command string as it was given, without the credential pipe; the pipe is
\* put before a sudo command only when a credential is configured.
C20_NoCredentialNoPipe ==
    (r_call.fn = "execute_command" /\ r_ret.op = "shell" /\ r_call.password = None) =>
        r_ret.ran \subseteq {RawText(r_call.command[1])}

\* C21 (as claimed): the timed_out element of the result of execute_command
\* is true exactly when the command timed out: a command that ends with a
\* non-zero exit code is reported with timed_out false and that exit code.
C21_TimedOutOnlyOnTimeout ==
    (x_pc = "returned" /\ x_ret.op = "shell"
        /\ x_ret.outcome \in {"exit0", "exit1", "timeout"}) =>
        /\ x_ret.timed_out <=> (x_ret.outcome = "timeout")
        /\ x_ret.outcome = "exit1" => x_ret.rc = 1

\* C22 (as claimed): a task goes from running to completed only on the
\* completion sentinel its script writes after the user command has ended:
\* no poll marks a task completed while its user command still runs, whatever
\* the command wrote into the sink, and the task then carries the exit code
\* of that sentinel.
C22_CompletedOnlyOnSentinel ==
    [][\A id \in Issued :
          (task[id].status = "running" /\ task'[id].status = "completed") =>
             /\ script[id] = "done"
             /\ \E i \in 1..Len(sink[id]) :
                   /\ sink[id][i].at # NoDate
                   /\ task'[id].return_code = Some(IntOf(sink[id][i].val))]_vars

\* C23: in a batch every command's child process is launched before the
\* executor waits for any of them: a launch happens only while no wait has
\* returned, and a wait returns only when every non-blank command of the
\* batch has its process.
C23_LaunchAllThenWaitAll ==
    [][/\ Len(x_procs') > Len(x_procs) => (x_pc = "launch" /\ x_results = <<>>)
       /\ Len(x_results') > Len(x_results) =>
             (x_pc = "wait" /\ Len(x_procs) = Len(NonEmpty(x_cmds)))]_vars

\* the wait for the first process of a batch of two has returned while the
\* second process still runs
C23_Witness ==
    /\ x_pc = "wait"
    /\ Len(NonEmpty(x_cmds)) = 2
    /\ Len(x_procs) = 2
    /\ Len(x_results) = 1
    /\ x_procs[2].return_code = None

\* C24: wait_for_tasks returns only once every id of its argument has
\* reached a terminal status, completed, failed or timeout: it never returns
\* while a task of the set is still pending or running.
C24_WaitReturnsWhenAllTerminal ==
    pc = "wait_done" =>
        \A id \in SetOf(task_ids) :
            /\ id \in Issued
            /\ task[id].status \in {"completed", "failed", "timeout"}

\* wait_for_tasks is about to return for two tasks, after a sleep: one of
\* them completed and the other timed out
C24_Witness ==
    /\ pc = "wait_done"
    /\ Len(task_ids) = 2
    /\ \E id \in SetOf(task_ids) : task[id].status = "completed"
    /\ \E id \in SetOf(task_ids) : task[id].status = "timeout"

\* C25: when execute_parallel_commands returns, none of the task ids of the
\* batch is left in the active_tasks of the ParallelExecutor.
C25_NoBatchIdLeftActive ==
    (x_pc = "returned" /\ x_ret.batch # None) =>
        \A e \in x_active : e[1] \notin SetOf(x_ret.batch[1].task_ids)

\* a batch of two has returned while active_tasks still holds the task of an
\* earlier batch that ended with an exception
C25_Witness ==
    /\ x_pc = "returned"
    /\ x_ret.batch # None
    /\ Len(x_ret.batch[1].task_ids) = 2
    /\ x_active # {}

\* C26 (as claimed): whenever the findings of analyze_results hold an
\* open-port finding, its recommendations hold the recommendation to review
\* the open ports.
C26_OpenPortsRecommended ==
    r_call.fn = "analyze_results" =>
        ((\E i \in 1..Len(r_ret.findings) : r_ret.findings[i].label = OpenPortsLabel)
            => \E j \in 1..Len(r_ret.recommendations) :
                  r_ret.recommendations[j] = "Review open ports and disable unnecessary services")

\* C27 (as claimed): task ids are never reused: a task that is launched
\* gets an id that no task launched before it in the same process lifetime
\* has, here none of the tasks active_tasks still holds.
C27_TaskIdsNeverReused ==
    [][Len(x_procs') > Len(x_procs) =>
          \A e \in x_active : e[1] # x_procs'[Len(x_procs')].task_id]_vars

\* C28 (as claimed): in every state of the TerminalManager every task held
\* in active_tasks has status running, every task held in completed_tasks
\* has a terminal status, and no task id is in both.
C28_RegistryPartition ==
    /\ \A id \in active_tasks : task[id].status = "running"
    /\ \A k \in 1..Len(completed_tasks) :
          task[completed_tasks[k]].status \in {"completed", "failed", "timeout"}
    /\ \A k \in 1..Len(completed_tasks) : completed_tasks[k] \notin active_tasks

\* C29 (as claimed): execute_command never raises to its caller: on every
\* dispatch path, the run_in_terminal path with a timeout or a spawn error
\* and the parallel path included, it returns its triple.
C29_ExecuteCommandNeverRaises ==
    x_ret.command # None => (x_pc # "raised" /\ ~x_ret.raised)

\* C30 (as claimed): the number of tasks held in active_tasks never exceeds
\* max_parallel_tasks, for any sequence of launch_terminal_task calls and
\* parallel_execute dispatches.
C30_ActiveWithinLimit ==
    Cardinality(active_tasks) <= max_parallel_tasks

====
